---- MODULE Spec2Model ----
(***************************************************************************)
(* A model of e6dl-rs: main (src/main.rs) validates the CLI arguments,     *)
(* collect_posts pages through the remote search, download_all fans the    *)
(* posts out over for_each_concurrent, and each download worker classifies *)
(* its post (PostGrouping), creates the group directory and streams the    *)
(* file (api::download).                                                   *)
(*                                                                         *)
(* Strings are sequences of one-character strings, so that parsing,        *)
(* formatting and PathBuf::push are computed and not assumed.              *)
(***************************************************************************)
EXTENDS Integers, Sequences, FiniteSets, TLC

(* ------------------------------ bounds -------------------------------- *)

\* u32 is modelled with U32Bits bits: 0 .. 2^U32Bits - 1.
U32Bits == 3

\* The largest --pages value drawn.
MaxPages == 3

\* The most posts the remote service returns over one run of Spec.
MaxPosts == 2

\* The longest list of posts download_all is given by SpecDownload.
MaxItems == 3

\* The largest --concurrency value drawn.
MaxConc == 2

\* The most chunks a response body streams.
MaxChunks == 1

\* The longest --group list drawn by SpecDownload.
MaxRules == 2

U32Max == 2^U32Bits - 1

(* ------------------------------ strings ------------------------------- *)

Digits == <<"0", "1", "2", "3", "4", "5", "6", "7", "8", "9">>

IsDigit(c) == \E d \in 1..10 : Digits[d] = c

DigitVal(c) == (CHOOSE d \in 1..10 : Digits[d] = c) - 1

\* The digits of s accumulated onto acc, or -1: a character that is no digit
\* (InvalidDigit) or a value above u32::MAX (PosOverflow).
RECURSIVE ParseDigits(_, _)
ParseDigits(s, acc) ==
    IF s = <<>> THEN acc
    ELSE IF ~IsDigit(Head(s)) THEN -1
    ELSE LET v == acc * 10 + DigitVal(Head(s))
         IN  IF v > U32Max THEN -1 ELSE ParseDigits(Tail(s), v)

\* str::parse::<u32>: an optional leading "+", then at least one digit; -1 is Err.
ParseU32(s) ==
    IF s = <<>> THEN -1
    ELSE IF Head(s) = "+"
         THEN (IF Tail(s) = <<>> THEN -1 ELSE ParseDigits(Tail(s), 0))
         ELSE ParseDigits(s, 0)

\* u32::to_string / "{}" of an unsigned integer.
RECURSIVE U32ToString(_)
U32ToString(n) ==
    IF n < 10 THEN <<Digits[n + 1]>>
    ELSE U32ToString(n \div 10) \o <<Digits[(n % 10) + 1]>>

Contains(seq, x) == \E i \in DOMAIN seq : seq[i] = x

(* ------------------------------- paths -------------------------------- *)

Sep == "/"

\* The components of a path string: split at "/", empty components dropped; an
\* absolute path keeps the root "/" as its first component.
RECURSIVE SplitPath(_, _, _)
SplitPath(s, cur, acc) ==
    IF s = <<>> THEN (IF cur = <<>> THEN acc ELSE Append(acc, cur))
    ELSE IF Head(s) = Sep
         THEN SplitPath(Tail(s), <<>>, IF cur = <<>> THEN acc ELSE Append(acc, cur))
         ELSE SplitPath(Tail(s), Append(cur, Head(s)), acc)

IsAbsolute(s) == s # <<>> /\ Head(s) = Sep

Components(s) == (IF IsAbsolute(s) THEN <<(<<Sep>>)>> ELSE <<>>) \o SplitPath(s, <<>>, <<>>)

\* PathBuf::push: an absolute argument replaces the path; otherwise the argument
\* is appended after a separator (added unless the path is empty or ends in one).
PathPush(path, s) ==
    IF IsAbsolute(s) THEN s
    ELSE IF path = <<>> \/ path[Len(path)] = Sep THEN path \o s
    ELSE path \o <<Sep>> \o s

\* The directory a path lies in, as components.
ParentOf(path) ==
    LET c == Components(path) IN IF c = <<>> THEN <<>> ELSE SubSeq(c, 1, Len(c) - 1)

\* Every directory fs::create_dir_all(path) makes sure of: the path and its ancestors.
DirsOf(path) ==
    LET c == Components(path) IN {SubSeq(c, 1, k) : k \in 1..Len(c)}

(* ------------------------- posts (api.rs) ----------------------------- *)

\* Tag names and file extensions the model draws from.
TagCat == <<"c", "a", "t">>
TagSlash == <<"m", "/", "f">>
ExtPng == <<"p", "n", "g">>
ExtJpg == <<"j", "p", "g">>

Ratings == {"Safe", "Questionable", "Explicit"}

\* impl ToString for PostRating.
RatingToString(r) ==
    CASE r = "Safe" -> <<"s", "a", "f", "e">>
      [] r = "Questionable" -> <<"q", "u", "e", "s", "t", "i", "o", "n", "a", "b", "l", "e">>
      [] r = "Explicit" -> <<"e", "x", "p", "l", "i", "c", "i", "t">>

\* A Post, with the fields the program reads. url is an Option: <<>> is None.
MkPost(id, ext, pools, artist, general, meta, rating, url) ==
    [id |-> id,
     file |-> [ext |-> ext, url |-> url],
     tags |-> [general |-> general, species |-> <<>>, character |-> <<>>,
               copyright |-> <<>>, artist |-> artist, invalid |-> <<>>,
               lore |-> <<>>, meta |-> meta],
     rating |-> rating,
     pools |-> pools]

\* PostTags::contains.
TagsContains(tags, tag) ==
    \/ Contains(tags.general, tag)
    \/ Contains(tags.species, tag)
    \/ Contains(tags.character, tag)
    \/ Contains(tags.copyright, tag)
    \/ Contains(tags.artist, tag)
    \/ Contains(tags.invalid, tag)
    \/ Contains(tags.lore, tag)
    \/ Contains(tags.meta, tag)

(* ----------------------- PostGrouping (main.rs) ----------------------- *)

Pool == [kind |-> "Pool", tag |-> <<>>]
Rating == [kind |-> "Rating", tag |-> <<>>]
Artist == [kind |-> "Artist", tag |-> <<>>]
FileType == [kind |-> "FileType", tag |-> <<>>]
Tag(t) == [kind |-> "Tag", tag |-> t]

\* The value a panicking unwrap() stands for; no label is equal to it.
Panicked == <<"panic">>

\* MatchesPost without the tests that the pool list and the artist list are
\* not empty.
MatchesPostNoEmptyTest(group, post) ==
    CASE group.kind = "Tag" -> TagsContains(post.tags, group.tag)
      [] OTHER -> TRUE

\* PostGrouping::matches_post.
MatchesPost(group, post) ==
    CASE group.kind = "Pool" -> post.pools # <<>>
      [] group.kind \in {"Rating", "FileType"} -> TRUE
      [] group.kind = "Artist" -> post.tags.artist # <<>>
      [] group.kind = "Tag" -> TagsContains(post.tags, group.tag)

\* PostGroup naming a pool post after its last pool.
PostGroupLastPool(group, post) ==
    CASE group.kind = "Pool" ->
            IF post.pools = <<>> THEN Panicked
            ELSE <<"p", "o", "o", "l", "_">> \o U32ToString(post.pools[Len(post.pools)])
      [] group.kind = "Rating" -> RatingToString(post.rating)
      [] group.kind = "FileType" -> post.file.ext
      [] group.kind = "Artist" ->
            IF post.tags.artist = <<>> THEN Panicked ELSE post.tags.artist[1]
      [] group.kind = "Tag" -> group.tag

\* PostGrouping::post_group.
PostGroup(group, post) ==
    CASE group.kind = "Pool" ->
            IF post.pools = <<>> THEN Panicked
            ELSE <<"p", "o", "o", "l", "_">> \o U32ToString(post.pools[1])
      [] group.kind = "Rating" -> RatingToString(post.rating)
      [] group.kind = "FileType" -> post.file.ext
      [] group.kind = "Artist" ->
            IF post.tags.artist = <<>> THEN Panicked ELSE post.tags.artist[1]
      [] group.kind = "Tag" -> group.tag

\* format!("{}.{}", post.id, post.file.ext).
PostFileName(post) == U32ToString(post.id) \o <<".">> \o post.file.ext

\* The grouping loop of download without its break: every matching group is pushed.
RECURSIVE GroupLoopNoBreak(_, _, _)
GroupLoopNoBreak(grouping, post, file_name) ==
    IF grouping = <<>> THEN [pushed |-> FALSE, file_name |-> file_name]
    ELSE IF ~MatchesPost(Head(grouping), post)
         THEN GroupLoopNoBreak(Tail(grouping), post, file_name)
         ELSE LET rest == GroupLoopNoBreak(Tail(grouping), post,
                              PathPush(file_name, PostGroup(Head(grouping), post)))
              IN  [pushed |-> TRUE, file_name |-> rest.file_name]

\* The grouping loop of download with matches_post replaced by a test that the
\* group has a label: a Tag group is used whether or not the post has the tag.
RECURSIVE GroupLoopNoSkip(_, _, _)
GroupLoopNoSkip(grouping, post, file_name) ==
    IF grouping = <<>> THEN [pushed |-> FALSE, file_name |-> file_name]
    ELSE IF PostGroup(Head(grouping), post) = Panicked
         THEN GroupLoopNoSkip(Tail(grouping), post, file_name)
         ELSE [pushed |-> TRUE,
               file_name |-> PathPush(file_name, PostGroup(Head(grouping), post))]

\* The grouping loop of download: skip the groups that do not match, push the
\* label of the first that does, and break. pushed tells whether create_dir_all
\* is called on file_name.
RECURSIVE GroupLoop(_, _, _)
GroupLoop(grouping, post, file_name) ==
    IF grouping = <<>> THEN [pushed |-> FALSE, file_name |-> file_name]
    ELSE IF ~MatchesPost(Head(grouping), post)
         THEN GroupLoop(Tail(grouping), post, file_name)
         ELSE [pushed |-> TRUE,
               file_name |-> PathPush(file_name, PostGroup(Head(grouping), post))]

\* Whether the loop reaches a post_group whose unwrap() panics.
GroupPanics(grouping, post) ==
    \E k \in DOMAIN grouping :
        /\ MatchesPost(grouping[k], post)
        /\ \A j \in 1..(k - 1) : ~MatchesPost(grouping[j], post)
        /\ PostGroup(grouping[k], post) = Panicked

(* ------------------------------ state --------------------------------- *)

VARIABLES
    args,         \* Cli: pages, page, concurrency, group, and whether out is UTF-8
    pc,           \* where main is
    exit_status,  \* the process exit status, -1 while it runs
    page_num,     \* collect_posts: the loop variable
    ending_page,  \* collect_posts: the exclusive end of the page range
    all_posts,    \* collect_posts: the accumulator
    results,      \* what collect_posts returned to main, NoResult before
    queries,      \* the page argument of every api::search call, in order
    responses,    \* what each api::search call returned, in order
    page_errors,  \* the pages whose failure collect_posts logged
    dirs,         \* the directories that exist, as component sequences
    files,        \* path |-> number of chunks written, for the files that exist
    workers,      \* download_all: one record per post
    done_logged   \* whether download_all logged "Done!"

vars == <<args, pc, exit_status, page_num, ending_page, all_posts, results,
          queries, responses, page_errors, dirs, files, workers, done_logged>>

\* --out; the default "./out" names the same directory.
OutRoot == <<"o", "u", "t">>

NoResult == [ok |-> FALSE, posts |-> <<>>, returned |-> FALSE]
SearchErr == [ok |-> FALSE, posts |-> <<>>, returned |-> TRUE]
SearchOk(posts) == [ok |-> TRUE, posts |-> posts, returned |-> TRUE]

SeqsUpTo(S, n) == UNION {[1..k -> S] : k \in 0..n}

\* The posts the remote service of Spec holds.
Catalog ==
    { MkPost(12, ExtPng, <<42>>, <<>>, <<TagSlash>>, <<>>, "Safe", <<"url12">>),
      MkPost(7, ExtJpg, <<42, 7>>, <<TagCat>>, <<>>, <<>>, "Explicit", <<>>) }

\* What one api::search call can return when at most n more posts are drawn:
\* an error, or any sequence of posts the service holds.
Responses(n) == {SearchErr} \cup {SearchOk(p) : p \in SeqsUpTo(Catalog, n)}

\* The --page values drawn: a page number, one with a sign, a before/after
\* cursor, u32::MAX and u32::MAX + 1.
PageArgs ==
    { <<"1">>, <<"+", "1">>, <<"a", "1">>, U32ToString(U32Max), U32ToString(U32Max + 1) }

\* The --group lists Spec draws.
GroupArgs == { <<>>, <<Pool, Rating>> }

CliArgs ==
    [pages : 0..MaxPages, page : PageArgs, concurrency : 0..MaxConc,
     group : GroupArgs, out_utf8 : BOOLEAN]

InitWith(a) ==
    /\ args = a
    /\ pc = "main"
    /\ exit_status = -1
    /\ page_num = 0
    /\ ending_page = 0
    /\ all_posts = <<>>
    /\ results = NoResult
    /\ queries = <<>>
    /\ responses = <<>>
    /\ page_errors = {}
    /\ dirs = {}
    /\ files = <<>>
    /\ workers = <<>>
    /\ done_logged = FALSE

Init == \E a \in CliArgs : InitWith(a)

Exit(code) ==
    /\ pc' = "exited"
    /\ exit_status' = code

(* ------------------------------- main --------------------------------- *)

\* PageCheckFails with the test of the parse inverted (is_ok for is_err).
PageCheckInverted(a) == a.pages > 1 /\ ParseU32(a.page) # -1

\* main, line 119: `page` must be numeric if `pages` > 1.
PageCheckFails(a) == a.pages > 1 /\ ParseU32(a.page) = -1

MainValidate ==
    /\ pc = "main"
    /\ IF PageCheckFails(args) THEN Exit(1)
       ELSE pc' = "collect_posts" /\ UNCHANGED exit_status
    /\ UNCHANGED <<args, page_num, ending_page, all_posts, results, queries, responses,
                   page_errors, dirs, files, workers, done_logged>>

(* --------------------------- collect_posts ---------------------------- *)

\* SinglePageArg with the page parsed and printed again before the search.
SinglePageArgParsed(a) ==
    IF ParseU32(a.page) = -1 THEN <<"1">> ELSE U32ToString(ParseU32(a.page))

\* The page handed to api::search when pages == 1: `&args.page`, the string
\* of the command line.
SinglePageArg(a) == a.page

\* pages == 1: one search with the page argument as given.
CollectSingle ==
    /\ pc = "collect_posts"
    /\ args.pages = 1
    /\ queries' = Append(queries, SinglePageArg(args))
    /\ pc' = "search_single"
    /\ UNCHANGED <<args, exit_status, page_num, ending_page, all_posts, results,
                   responses, page_errors, dirs, files, workers, done_logged>>

SearchSingleReturn ==
    /\ pc = "search_single"
    /\ \E resp \in Responses(MaxPosts) :
          /\ responses' = Append(responses, resp)
          /\ results' = resp
    /\ pc' = "match"
    /\ UNCHANGED <<args, exit_status, page_num, ending_page, all_posts, queries,
                   page_errors, dirs, files, workers, done_logged>>

\* The multi-page path up to the loop: parse the starting page (expect) and add
\* pages to it. The sum overflowing u32 panics in a build with overflow checks
\* and wraps in one without.
CollectMultiBegin ==
    /\ pc = "collect_posts"
    /\ args.pages # 1
    /\ LET starting_page == ParseU32(args.page)
           sum == starting_page + args.pages
       IN  \/ /\ starting_page = -1
              /\ Exit(101)
              /\ UNCHANGED <<page_num, ending_page>>
           \/ /\ starting_page # -1
              /\ sum > U32Max
              /\ Exit(101)
              /\ UNCHANGED <<page_num, ending_page>>
           \/ /\ starting_page # -1
              /\ page_num' = starting_page
              /\ ending_page' = sum % (U32Max + 1)
              /\ pc' = "loop"
              /\ UNCHANGED exit_status
    /\ UNCHANGED <<args, all_posts, results, queries, responses, page_errors, dirs, files,
                   workers, done_logged>>

\* The head of `for page_num in starting_page..ending_page`: search the next
\* page, or leave the loop and return Ok(all_posts).
LoopNext ==
    /\ pc = "loop"
    /\ IF page_num < ending_page
       THEN /\ queries' = Append(queries, U32ToString(page_num))
            /\ pc' = "search_page"
            /\ UNCHANGED results
       ELSE /\ results' = SearchOk(all_posts)
            /\ pc' = "match"
            /\ UNCHANGED queries
    /\ UNCHANGED <<args, exit_status, page_num, ending_page, all_posts,
                   responses, page_errors, dirs, files, workers, done_logged>>

\* NextPage staying on the page, so that the page is searched again.
NextPageSame(p) == p

\* The step of the range starting_page..ending_page.
NextPage(p) == p + 1

\* PageBreaks leaving the loop on a failed search as well.
PageBreaksOnError(resp) == resp.posts = <<>>

\* `if posts.is_empty() { ...; break; }` under Ok(posts): the page that ends the scan.
PageBreaks(resp) == resp.ok /\ resp.posts = <<>>

\* PageAppend putting the new page in front of the accumulator.
PageAppendInFront(acc, resp) == IF resp.ok THEN resp.posts \o acc ELSE acc

\* all_posts.append(&mut posts) under Ok(posts); an Err adds nothing.
PageAppend(acc, resp) == IF resp.ok THEN acc \o resp.posts ELSE acc

\* The search of page_num returns: an empty page breaks, a page with posts is
\* appended, an error is logged; the last two go on to the next page.
SearchPageReturn ==
    /\ pc = "search_page"
    /\ \E resp \in Responses(MaxPosts - Len(all_posts)) :
          /\ responses' = Append(responses, resp)
          /\ IF PageBreaks(resp)
             THEN /\ results' = SearchOk(all_posts)
                  /\ pc' = "match"
                  /\ UNCHANGED <<page_num, all_posts, page_errors>>
             ELSE /\ all_posts' = PageAppend(all_posts, resp)
                  /\ page_errors' = IF resp.ok THEN page_errors
                                    ELSE page_errors \cup {page_num}
                  /\ page_num' = NextPage(page_num)
                  /\ pc' = "loop"
                  /\ UNCHANGED results
    /\ UNCHANGED <<args, exit_status, ending_page, queries, dirs, files, workers,
                   done_logged>>

\* MainMatch with the search error propagated out of main (`?` for the match).
MainMatchPropagates ==
    /\ pc = "match"
    /\ \/ /\ ~results.ok
          /\ Exit(1)
       \/ /\ results.ok
          /\ results.posts = <<>>
          /\ Exit(0)
       \/ /\ results.ok
          /\ results.posts # <<>>
          /\ ~args.out_utf8
          /\ Exit(101)
       \/ /\ results.ok
          /\ results.posts # <<>>
          /\ args.out_utf8
          /\ pc' = "download_all"
          /\ UNCHANGED exit_status
    /\ UNCHANGED <<args, page_num, ending_page, all_posts, results, queries,
                   responses, page_errors, dirs, files, workers, done_logged>>

\* main, lines 128-140: what main does with the result of collect_posts.
MainMatch ==
    /\ pc = "match"
    /\ \/ /\ ~results.ok
          /\ Exit(0)
       \/ /\ results.ok
          /\ results.posts = <<>>
          /\ Exit(0)
       \/ /\ results.ok
          /\ results.posts # <<>>
          /\ ~args.out_utf8
          /\ Exit(101)
       \/ /\ results.ok
          /\ results.posts # <<>>
          /\ args.out_utf8
          /\ pc' = "download_all"
          /\ UNCHANGED exit_status
    /\ UNCHANGED <<args, page_num, ending_page, all_posts, results, queries, responses,
                   page_errors, dirs, files, workers, done_logged>>

(* ---------------------------- download_all --------------------------- *)

NewWorker ==
    [st |-> "pending", path |-> <<>>, res |-> "none", mkdir_err |-> FALSE,
     created |-> FALSE, fetched |-> FALSE, chunks |-> 0]

\* download has returned and logged res ("ok": done, "err": the error); the
\* future and its stream are dropped.
Returned(w, res) == [w EXCEPT !.st = "returned", !.res = res, !.chunks = 0]

Max(a, b) == IF a > b THEN a ELSE b

\* The posts whose download has started and not returned.
InFlight == {i \in DOMAIN workers : workers[i].st \in {"fetching", "streaming"}}

Pending == {i \in DOMAIN workers : workers[i].st = "pending"}

\* SlotFree reading a limit of 0 as no slot at all.
SlotFreeZeroBlocks(running, limit) == running < limit

\* SlotFree taking an item while limit futures run already.
SlotFreeOffByOne(running, limit) == limit = 0 \/ running <= limit

\* for_each_concurrent(limit, ..) takes the next item of the stream while fewer
\* than limit futures run; a limit of 0 is no limit.
SlotFree(running, limit) == limit = 0 \/ running < limit

\* PoolFinished not waiting for the futures that still run.
PoolFinishedEarly(ws) == \A i \in DOMAIN ws : ws[i].st # "pending"

\* for_each_concurrent completes when the stream is exhausted and no future is left.
PoolFinished(ws) == \A i \in DOMAIN ws : ws[i].st = "returned"

\* download_all, line 205: fs::create_dir_all(&to)?, then the pool over posts.
DownloadAllBegin ==
    /\ pc = "download_all"
    /\ \/ /\ dirs' = dirs \cup DirsOf(OutRoot)
          /\ workers' = [i \in DOMAIN results.posts |-> NewWorker]
          /\ pc' = "pool"
          /\ UNCHANGED exit_status
       \/ /\ ~(DirsOf(OutRoot) \subseteq dirs)
          /\ Exit(1)
          /\ UNCHANGED <<dirs, workers>>
    /\ UNCHANGED <<args, page_num, ending_page, all_posts, results, queries, responses,
                   page_errors, files, done_logged>>

\* ApiDownloadBegin without the check of the url: the file is created and the
\* request is sent whether or not the post has one.
ApiDownloadBeginNoUrlCheck(w, post, ds, fs, create_ok) ==
    IF ~(create_ok /\ ParentOf(w.path) \in ds)
    THEN [w |-> Returned([w EXCEPT !.created = TRUE], "err"), files |-> fs]
    ELSE [w |-> [w EXCEPT !.st = "fetching", !.created = TRUE, !.fetched = TRUE],
          files |-> (w.path :> 0) @@ fs]

\* api::download up to its first await: no url is an error; File::create(to)
\* creates or truncates the file and fails when the directory is missing (or
\* when the system refuses, create_ok); then the request is sent.
ApiDownloadBegin(w, post, ds, fs, create_ok) ==
    IF post.file.url = <<>>
    THEN [w |-> Returned(w, "err"), files |-> fs]
    ELSE IF ~(create_ok /\ ParentOf(w.path) \in ds)
    THEN [w |-> Returned([w EXCEPT !.created = TRUE], "err"), files |-> fs]
    ELSE [w |-> [w EXCEPT !.st = "fetching", !.created = TRUE, !.fetched = TRUE],
          files |-> (w.path :> 0) @@ fs]

\* MkdirMayFail of fs::create_dir: a directory that is already there is an
\* error as well.
MkdirMayFailExisting(file_name, ds) == TRUE

\* fs::create_dir_all(&file_name) returns Ok when the directory is already
\* there; it can only fail when something is left to create.
MkdirMayFail(file_name, ds) == ~(DirsOf(file_name) \subseteq ds)

\* download (main.rs) from its start to the first await of api::download, for
\* the next post of the stream: the grouping loop, create_dir_all of the group
\* directory (its error is logged), the file name, and api::download's start.
StartDownload(i) ==
    /\ pc = "pool"
    /\ i \in Pending
    /\ \A j \in Pending : i <= j
    /\ SlotFree(Cardinality(InFlight), args.concurrency)
    /\ LET post == results.posts[i]
           g == GroupLoop(args.group, post, OutRoot)
       IN  IF GroupPanics(args.group, post)
           THEN /\ Exit(101)
                /\ UNCHANGED <<dirs, files, workers>>
           ELSE \E mkdir_ok, create_ok \in BOOLEAN :
                  /\ mkdir_ok \/ (g.pushed /\ MkdirMayFail(g.file_name, dirs))
                  /\ LET ds == IF g.pushed /\ mkdir_ok
                               THEN dirs \cup DirsOf(g.file_name) ELSE dirs
                         w == [workers[i] EXCEPT
                                 !.path = PathPush(g.file_name, PostFileName(post)),
                                 !.mkdir_err = ~mkdir_ok]
                         r == ApiDownloadBegin(w, post, ds, files, create_ok)
                     IN  /\ dirs' = ds
                         /\ files' = r.files
                         /\ workers' = [workers EXCEPT ![i] = r.w]
                  /\ UNCHANGED <<pc, exit_status>>
    /\ UNCHANGED <<args, page_num, ending_page, all_posts, results, queries, responses,
                   page_errors, done_logged>>

\* reqwest::get(url).await returns.
FetchReturn(i) ==
    /\ pc = "pool"
    /\ i \in DOMAIN workers
    /\ workers[i].st = "fetching"
    /\ \/ workers' = [workers EXCEPT ![i].st = "streaming"]
       \/ workers' = [workers EXCEPT ![i] = Returned(@, "err")]
    /\ UNCHANGED <<args, pc, exit_status, page_num, ending_page, all_posts,
                   results, queries, responses, page_errors, dirs, files, done_logged>>

\* One turn of `while let Some(bytes) = download_stream.next().await`.
StreamNext(i) ==
    /\ pc = "pool"
    /\ i \in DOMAIN workers
    /\ workers[i].st = "streaming"
    /\ \/ /\ workers[i].chunks < MaxChunks
          /\ workers' = [workers EXCEPT ![i].chunks = @ + 1]
          /\ files' = [files EXCEPT ![workers[i].path] = Max(@, workers[i].chunks + 1)]
       \/ /\ workers[i].chunks < MaxChunks
          /\ workers' = [workers EXCEPT ![i] = Returned(@, "err")]
          /\ UNCHANGED files
       \/ /\ workers' = [workers EXCEPT ![i] = Returned(@, "err")]
          /\ UNCHANGED files
       \/ /\ workers' = [workers EXCEPT ![i] = Returned(@, "ok")]
          /\ UNCHANGED files
    /\ UNCHANGED <<args, pc, exit_status, page_num, ending_page, all_posts,
                   results, queries, responses, page_errors, dirs, done_logged>>

\* for_each_concurrent is over: "Done!" is logged, download_all returns Ok and
\* so does main.
DownloadAllDone ==
    /\ pc = "pool"
    /\ PoolFinished(workers)
    /\ done_logged' = TRUE
    /\ Exit(0)
    /\ UNCHANGED <<args, page_num, ending_page, all_posts, results, queries, responses,
                   page_errors, dirs, files, workers>>

\* The steps of download_all.
NextDownload ==
    \/ DownloadAllBegin
    \/ \E i \in DOMAIN workers : StartDownload(i)
    \/ \E i \in DOMAIN workers : FetchReturn(i)
    \/ \E i \in DOMAIN workers : StreamNext(i)
    \/ DownloadAllDone

Next ==
    \/ MainValidate
    \/ CollectSingle
    \/ SearchSingleReturn
    \/ CollectMultiBegin
    \/ LoopNext
    \/ SearchPageReturn
    \/ MainMatch
    \/ NextDownload

\* The whole program, from the parsed command line on.
Spec == Init /\ [][Next]_vars

(* ------------------- download_all on drawn arguments ------------------ *)

\* The posts SpecDownload draws single posts from: every combination of the
\* fields the grouping and the file name read.
PostSet ==
    { MkPost(12, ext, pools, artist, general, meta, rating, url) :
        ext \in {ExtPng, ExtJpg},
        pools \in {<<>>, <<42>>, <<7, 42>>},
        artist \in {<<>>, <<TagCat>>, <<TagSlash, TagCat>>},
        general \in {<<>>, <<TagSlash>>},
        meta \in {<<>>, <<TagCat>>},
        rating \in {"Safe", "Explicit"},
        url \in {<<>>, <<"url12">>} }

Groupings == {Pool, Rating, Artist, FileType, Tag(TagCat), Tag(TagSlash)}

\* main has called download_all(posts, out, group, concurrency) after a
\* one-page search that returned posts.
InitDownloadWith(posts, group, concurrency) ==
    /\ args = [pages |-> 1, page |-> <<"1">>, concurrency |-> concurrency,
               group |-> group, out_utf8 |-> TRUE]
    /\ pc = "download_all"
    /\ exit_status = -1
    /\ page_num = 0
    /\ ending_page = 0
    /\ all_posts = <<>>
    /\ results = SearchOk(posts)
    /\ queries = << <<"1">> >>
    /\ responses = <<SearchOk(posts)>>
    /\ page_errors = {}
    /\ dirs = {}
    /\ files = <<>>
    /\ workers = <<>>
    /\ done_logged = FALSE

\* A list of posts of the catalog under the groupings and concurrencies of Spec.
InitDownloadLists ==
    \E posts \in SeqsUpTo(Catalog, MaxItems) \ {<<>>}, group \in GroupArgs,
       concurrency \in 0..MaxConc :
       InitDownloadWith(posts, group, concurrency)

\* Either such a list, or one post of PostSet under every list of groupings.
InitDownload ==
    \/ InitDownloadLists
    \/ \E post \in PostSet, group \in SeqsUpTo(Groupings, MaxRules) :
          InitDownloadWith(<<post>>, group, 1)

SpecDownload == InitDownload /\ [][NextDownload]_vars

\* download_all with every request and every write returning in the end: the
\* executor polls the futures of the pool for as long as one can make a step.
SpecDownloadFair ==
    InitDownloadLists /\ [][NextDownload]_vars /\ WF_vars(NextDownload)

(* ------------------------------ claims -------------------------------- *)

HasUrl(i) == results.posts[i].file.url # <<>>

\* C1: with concurrency C >= 1, at most C downloads have started and not yet
\* returned, in every state of download_all; a post beyond that bound is still
\* pending, so it starts only once a running download has returned.
C1_PoolBound ==
    args.concurrency >= 1 => Cardinality(InFlight) <= args.concurrency

\* C1: the pool is full and a post waits for a slot.
C1_Witness ==
    /\ args.concurrency = 2
    /\ Cardinality(InFlight) = 2
    /\ Pending # {}

\* C2: "Done!" is logged only when every post of the list has a worker and
\* every worker has returned: none pending, none in flight.
C2_DoneAfterAll ==
    done_logged =>
        /\ DOMAIN workers = DOMAIN results.posts
        /\ \A i \in DOMAIN workers : workers[i].st = "returned"
        /\ Pending = {} /\ InFlight = {}

\* C2: completion after a run in which downloads overlapped: the last post of
\* a list of three was fetched.
C2_Witness ==
    /\ done_logged
    /\ Len(results.posts) = 3
    /\ args.concurrency = 2
    /\ workers[3].fetched
    /\ workers[1].res = "ok"

\* C3: a post without url is never fetched and no file is created for it; its
\* download returns an error at once, and the pool goes on after it: it is
\* either still running or has finished with every post attempted.
C3_AbsentUrl ==
    \A i \in DOMAIN workers :
        ~HasUrl(i) =>
            /\ ~workers[i].fetched
            /\ ~workers[i].created
            /\ workers[i].st \in {"pending", "returned"}
            /\ workers[i].st = "returned" =>
                  /\ workers[i].res = "err"
                  /\ \/ pc = "pool"
                     \/ /\ done_logged
                        /\ exit_status = 0
                        /\ \A j \in DOMAIN workers :
                              /\ workers[j].st = "returned"
                              /\ HasUrl(j) => workers[j].created

\* C3: the batch is over; a post without url failed and a post after it in the
\* list was downloaded.
C3_Witness ==
    /\ done_logged
    /\ \E i, j \in DOMAIN workers :
          /\ i < j
          /\ ~HasUrl(i)
          /\ workers[i].res = "err"
          /\ HasUrl(j)
          /\ workers[j].res = "ok"

StartingPage == ParseU32(args.page)

EmptyPage(r) == r.ok /\ r.posts = <<>>

\* The posts of the pages that succeeded, in page order.
RECURSIVE Flatten(_)
Flatten(rs) ==
    IF rs = <<>> THEN <<>>
    ELSE (IF Head(rs).ok THEN Head(rs).posts ELSE <<>>) \o Flatten(Tail(rs))

\* C4: with pages > 1, once page k is the first to succeed with no posts, the
\* searches issued are exactly those of the pages start .. k, in order and once
\* each, in this and every later state; collect_posts has returned Ok with the
\* posts of the pages before k, in page order; the empty page is no error.
C4_StopsAtFirstEmpty ==
    args.pages > 1 =>
        \A k \in DOMAIN responses :
            (EmptyPage(responses[k]) /\ \A j \in 1..(k - 1) : ~EmptyPage(responses[j])) =>
                /\ Len(queries) = k
                /\ \A j \in 1..k : queries[j] = U32ToString(StartingPage + j - 1)
                /\ results.returned
                /\ results.ok
                /\ results.posts = Flatten(SubSeq(responses, 1, k - 1))
                /\ (StartingPage + k - 1) \notin page_errors

\* C4: two pages with posts, then the empty third page.
C4_Witness ==
    /\ args.pages > 1
    /\ results.returned
    /\ Len(responses) = 3
    /\ EmptyPage(responses[3])
    /\ responses[1].ok /\ responses[1].posts # <<>>
    /\ responses[2].ok /\ responses[2].posts # <<>>
    /\ responses[1].posts # responses[2].posts

\* C5: with pages > 1, a failed search of a page is logged and does not end
\* the scan: when collect_posts has returned, the failed page was the last of
\* the range or the next page was searched; the result is Ok and holds the
\* posts of every page that succeeded, those after the failure too.
C5_FailureDoesNotStop ==
    args.pages > 1 =>
        /\ \A j \in DOMAIN responses :
              ~responses[j].ok =>
                  /\ (StartingPage + j - 1) \in page_errors
                  /\ results.returned => (j < Len(queries) \/ j = args.pages)
        /\ results.returned =>
              /\ results.ok
              /\ results.posts = Flatten(responses)

\* C5: a page failed, a later page had posts, and they were returned.
C5_Witness ==
    /\ args.pages > 1
    /\ results.returned
    /\ results.posts # <<>>
    /\ \E j, k \in DOMAIN responses :
          /\ j < k
          /\ ~responses[j].ok
          /\ responses[k].ok
          /\ responses[k].posts = results.posts

\* C6: with pages > 1 and a page that does not parse as u32, the program is
\* either before the check or has exited with a non-zero status, and no search
\* was issued, no fetch started, no directory and no file created.
C6_PreflightExit ==
    (args.pages > 1 /\ ParseU32(args.page) = -1) =>
        /\ pc \in {"main", "exited"}
        /\ pc = "exited" => exit_status # 0
        /\ queries = <<>>
        /\ responses = <<>>
        /\ workers = <<>>
        /\ dirs = {}
        /\ files = <<>>

\* C6: the exit on --pages 2 --page a1.
C6_Witness ==
    /\ args.pages = 2
    /\ args.page = <<"a", "1">>
    /\ pc = "exited"
    /\ exit_status = 1

PreflightFails == args.pages > 1 /\ ParseU32(args.page) = -1

\* The ways main ends with a non-zero status other than the pre-flight check:
\* the expect of collect_posts panics (pages = 0, page not numeric); page +
\* pages overflows in a build with overflow checks; the output path is not
\* UTF-8 (to_str().unwrap()); download_all cannot create the output directory
\* and main returns its error.
ExpectPanics == args.pages = 0 /\ ParseU32(args.page) = -1

OverflowPanics ==
    /\ args.pages # 1
    /\ ParseU32(args.page) # -1
    /\ ParseU32(args.page) + args.pages > U32Max
    /\ ~results.returned

OutPathPanics == results.ok /\ results.posts # <<>> /\ ~args.out_utf8

OutDirFails == results.ok /\ results.posts # <<>> /\ args.out_utf8 /\ workers = <<>>

\* C7 as stated, on the runs in which main does not panic: the exit status is
\* non-zero only for the pre-flight check, so it is zero when the output
\* directory cannot be created.
C7_OnlyPreflightNonZero ==
    (pc = "exited" /\ exit_status # 101) => (exit_status # 0 <=> PreflightFails)

\* C7, amended: the exit status is 1 for the pre-flight check and when the
\* output directory cannot be created, 101 when main panics, and 0 for every
\* other run: failed searches, failed downloads and failures to create a group
\* directory or a file do not end the run, which finishes the pool first.
C7_ExitStatus ==
    pc = "exited" =>
        /\ exit_status = (IF PreflightFails \/ OutDirFails THEN 1
                          ELSE IF ExpectPanics \/ OverflowPanics \/ OutPathPanics
                          THEN 101 ELSE 0)
        /\ workers # <<>> =>
              /\ done_logged
              /\ \A i \in DOMAIN workers : workers[i].st = "returned"

\* C7: status 0 after a failed page, a failed group directory and a failed download.
C7_Witness ==
    /\ pc = "exited"
    /\ exit_status = 0
    /\ page_errors # {}
    /\ \E i \in DOMAIN workers : workers[i].mkdir_err /\ workers[i].res = "err"

\* The first group of the list that matches the post, 0 when none does.
FirstMatch(grouping, post) ==
    IF \E k \in DOMAIN grouping : MatchesPost(grouping[k], post)
    THEN CHOOSE k \in DOMAIN grouping :
            /\ MatchesPost(grouping[k], post)
            /\ \A j \in 1..(k - 1) : ~MatchesPost(grouping[j], post)
    ELSE 0

Started == {i \in DOMAIN workers : workers[i].st # "pending"}

\* C8 as stated: the label of the first matching group is the one path segment
\* between the output root and the file name.
C8_OneSegment ==
    \A i \in Started :
        LET post == results.posts[i]
            k == FirstMatch(args.group, post)
        IN  k # 0 =>
               Components(workers[i].path) =
                   <<OutRoot, PostGroup(args.group[k], post), PostFileName(post)>>

\* C8, amended: the label of the first matching group, and of no later one, is
\* what is pushed onto the output root; the directory is one path segment when
\* the label holds no "/", and one segment per part between "/" when it does.
C8_FirstMatch ==
    \A i \in Started :
        LET post == results.posts[i]
            k == FirstMatch(args.group, post)
        IN  k # 0 =>
               LET label == PostGroup(args.group[k], post)
               IN  /\ Components(workers[i].path) =
                          <<OutRoot>> \o SplitPath(label, <<>>, <<>>)
                                      \o <<PostFileName(post)>>
                   /\ ~Contains(label, Sep) =>
                          Components(workers[i].path) =
                              <<OutRoot, label, PostFileName(post)>>

\* C8: both groups of the list match, with different labels; the file was
\* downloaded under the label of the first.
C8_Witness ==
    \E i \in Started :
        LET post == results.posts[i] IN
        /\ Len(args.group) = 2
        /\ MatchesPost(args.group[1], post)
        /\ MatchesPost(args.group[2], post)
        /\ PostGroup(args.group[1], post) # PostGroup(args.group[2], post)
        /\ Components(workers[i].path) =
               <<OutRoot, PostGroup(args.group[1], post), PostFileName(post)>>
        /\ workers[i].res = "ok"

PoolLabel42 == <<"p", "o", "o", "l", "_", "4", "2">>
PoolLabel7 == <<"p", "o", "o", "l", "_", "7">>
CollectionLabel42 ==
    <<"c", "o", "l", "l", "e", "c", "t", "i", "o", "n", "_", "4", "2">>

\* The example of C9: groups [pool, rating], pools [42], rating safe.
C9_Example(i) ==
    /\ args.group = <<Pool, Rating>>
    /\ results.posts[i].pools = <<42>>
    /\ results.posts[i].rating = "Safe"

\* C9 as stated: the example is filed under "collection_42".
C9_CollectionLabel ==
    \A i \in Started :
        C9_Example(i) => Components(workers[i].path)[2] = CollectionLabel42

\* C9, amended: when the pool group is the first that matches, the directory is
\* "pool_" and the first pool id of the post; the example is filed under
\* "pool_42".
C9_PoolLabel ==
    \A i \in Started :
        LET post == results.posts[i]
            k == FirstMatch(args.group, post)
            dir == Components(workers[i].path)[2]
        IN  /\ (k # 0 /\ args.group[k] = Pool) =>
                  /\ post.pools[1] = 42 => dir = PoolLabel42
                  /\ post.pools[1] = 7 => dir = PoolLabel7
                  /\ dir = <<"p", "o", "o", "l", "_">> \o U32ToString(Head(post.pools))
            /\ C9_Example(i) => dir = PoolLabel42

\* C9: the example, downloaded.
C9_Witness ==
    \E i \in Started :
        /\ C9_Example(i)
        /\ workers[i].res = "ok"
        /\ Components(workers[i].path) = <<OutRoot, PoolLabel42, PostFileName(results.posts[i])>>

NoGroupMatches(post) == \A k \in DOMAIN args.group : ~MatchesPost(args.group[k], post)

\* C10: for a post that no group matches (the list may be empty) the file is
\* out/<id>.<ext>, create_dir_all is not called for it, and when that is so
\* for every post of the list no directory but the output root exists.
C10_NoSubpath ==
    /\ \A i \in Started :
          NoGroupMatches(results.posts[i]) =>
              /\ workers[i].path =
                     OutRoot \o <<"/">> \o U32ToString(results.posts[i].id)
                             \o <<".">> \o results.posts[i].file.ext
              /\ Len(Components(workers[i].path)) = 2
              /\ ~workers[i].mkdir_err
    /\ (\A i \in DOMAIN results.posts : NoGroupMatches(results.posts[i])) =>
          dirs \subseteq {<<OutRoot>>}

\* C10: a post that neither of two groups matches, downloaded to out/12.png.
C10_Witness ==
    \E i \in Started :
        /\ Len(args.group) = 2
        /\ NoGroupMatches(results.posts[i])
        /\ workers[i].res = "ok"
        /\ workers[i].path = <<"o", "u", "t", "/", "1", "2", ".", "p", "n", "g">>
        /\ dirs = {<<OutRoot>>}

\* The group directory of post i: what the grouping loop leaves in file_name.
GroupDir(i) == GroupLoop(args.group, results.posts[i], OutRoot)

\* C11: creating the group directory is idempotent. When two started downloads
\* resolve to the same group directory and the earlier one created it, the
\* later one sees no creation error, in whatever order the two downloads go
\* on, and it goes on to api::download (File::create, then the fetch).
C11_IdempotentMkdir ==
    \A i \in Started : \A j \in Started :
        ( /\ j < i
          /\ GroupDir(i).pushed
          /\ GroupDir(j).file_name = GroupDir(i).file_name
          /\ ~workers[j].mkdir_err )
        => /\ ~workers[i].mkdir_err
           /\ DirsOf(GroupDir(i).file_name) \subseteq dirs
           /\ HasUrl(i) => workers[i].created

\* C11: two downloads running at once in the same group directory, neither
\* with a creation error, both with their request sent.
C11_Witness ==
    \E i \in InFlight : \E j \in InFlight :
        /\ j < i
        /\ GroupDir(i).pushed
        /\ GroupDir(j).file_name = GroupDir(i).file_name
        /\ ~workers[i].mkdir_err /\ ~workers[j].mkdir_err
        /\ workers[i].fetched /\ workers[j].fetched

\* C12: with pages = 1, collect_posts makes exactly one search, for the page
\* argument as it was given on the command line (not parsed, numeric or not),
\* and returns what that search returned: the same posts in the same order.
C12_SinglePage ==
    args.pages = 1 =>
        /\ Len(queries) <= 1
        /\ pc \notin {"main", "collect_posts"} =>
              /\ Len(queries) = 1
              /\ queries[1] = args.page
        /\ results.returned =>
              /\ Len(responses) = 1
              /\ results = responses[1]

\* C12: the page is the cursor "a1", which is not a number, and the one search
\* returned two different posts, handed on as they came.
C12_Witness ==
    /\ args.pages = 1
    /\ args.page = <<"a", "1">>
    /\ ParseU32(args.page) = -1
    /\ queries = << <<"a", "1">> >>
    /\ results.returned /\ results.ok
    /\ Len(results.posts) = 2
    /\ results.posts[1] # results.posts[2]
    /\ results.posts = responses[1].posts

\* C13: when the creation of a post's group directory fails, the post is given
\* up: after the error neither File::create nor the request is attempted for
\* it (the other downloads of the pool go on).
C13_Abandoned ==
    \A i \in Started :
        workers[i].mkdir_err => ~workers[i].created /\ ~workers[i].fetched

\* No response of the remote service lists a post twice within one page.
NoPageRepeats ==
    \A k \in DOMAIN responses :
        \A a \in DOMAIN responses[k].posts : \A b \in DOMAIN responses[k].posts :
            a # b => responses[k].posts[a] # responses[k].posts[b]

\* C14: for every list of posts that the collection of pages can produce, no
\* two downloads of a run write to the same file path: two downloads that are
\* running have different target paths. It is stated for the runs with a
\* positive concurrency in which no single page repeats a post, which are
\* among the runs the claim speaks of.
C14_DistinctPaths ==
    (args.concurrency >= 1 /\ NoPageRepeats) =>
        \A i \in InFlight : \A j \in InFlight :
            i # j => workers[i].path # workers[j].path

\* C15: in the multi-page path the searches are made one after the other and
\* by increasing page: at most one search is waiting for its response, and it
\* is the last one issued; the j-th search is for page start + j - 1, so the
\* page numbers increase strictly and no page, failed or not, is asked twice.
C15_Sequential ==
    args.pages # 1 =>
        /\ Len(queries) - Len(responses) \in {0, 1}
        /\ (Len(queries) = Len(responses) + 1) <=> (pc = "search_page")
        /\ \A j \in DOMAIN queries : queries[j] = U32ToString(StartingPage + j - 1)
        /\ \A i \in DOMAIN queries : \A j \in DOMAIN queries :
              i < j => ParseU32(queries[i]) < ParseU32(queries[j])

\* C15: the third page is being searched after the first two searches have
\* returned, one of them with an error.
C15_Witness ==
    /\ args.pages = 3
    /\ Len(queries) = 3
    /\ Len(responses) = 2
    /\ pc = "search_page"
    /\ page_errors # {}
    /\ \E k \in DOMAIN responses : responses[k].ok

\* How far a download has come.
StRank(st) ==
    CASE st = "pending" -> 0
      [] st = "fetching" -> 1
      [] st = "streaming" -> 2
      [] st = "returned" -> 3

\* No step takes a download back: it is started once and, once it has
\* returned, it is left as it is.
NoRetry ==
    \A i \in DOMAIN workers :
        i \in DOMAIN workers' =>
            /\ StRank(workers'[i].st) >= StRank(workers[i].st)
            /\ workers[i].st = "returned" => workers'[i] = workers[i]

\* Every post of the list has been attempted and has its one result.
AllAttempted ==
    /\ Len(workers) = Len(results.posts)
    /\ \A i \in DOMAIN workers :
          /\ workers[i].st = "returned"
          /\ workers[i].res \in {"ok", "err"}
          /\ workers[i].path # <<>>

LabelCalls(grouping, post) ==
    {k \in DOMAIN grouping :
        /\ MatchesPost(grouping[k], post)
        /\ \A j \in 1..(k - 1) : ~MatchesPost(grouping[j], post)}

\* C17: match and label agree, for every kind of group and every post of the
\* run: a group that matches the post has a pool id or an artist tag to take
\* its label from, post_group is called only for a group that matched, and so
\* no download panics on the unwrap (no exit with status 101, no label missing
\* from the path of a started download).
C17_MatchHasLabel ==
    /\ \A i \in DOMAIN results.posts :
          LET post == results.posts[i]
          IN  /\ \A k \in DOMAIN args.group :
                    MatchesPost(args.group[k], post) =>
                        /\ PostGroup(args.group[k], post) # Panicked
                        /\ args.group[k].kind = "Pool" => post.pools # <<>>
                        /\ args.group[k].kind = "Artist" => post.tags.artist # <<>>
              /\ \A k \in LabelCalls(args.group, post) :
                    PostGroup(args.group[k], post) # Panicked
              /\ ~GroupPanics(args.group, post)
    /\ exit_status # 101
    /\ \A i \in Started :
          /\ LabelCalls(args.group, results.posts[i]) # {} <=> GroupDir(i).pushed
          /\ GroupDir(i).pushed =>
                ParentOf(workers[i].path) # Components(PathPush(OutRoot, Panicked))

\* C17: a post without a pool and with an artist, grouped by pool and then by
\* artist: the pool group is passed over and the artist names the directory.
C17_Witness ==
    \E i \in Started :
        LET post == results.posts[i]
        IN  /\ Len(args.group) = 2
            /\ args.group[1] = Pool /\ args.group[2] = Artist
            /\ post.pools = <<>>
            /\ post.tags.artist # <<>>
            /\ LabelCalls(args.group, post) = {2}
            /\ workers[i].res = "ok"
            /\ ParentOf(workers[i].path) \in dirs
            /\ GroupDir(i).file_name = PathPush(OutRoot, post.tags.artist[1])

\* The page has a character that is neither a digit nor a sign: the before or
\* after cursors of the service, such as "a1".
NonNumeric(s) == \E k \in DOMAIN s : ~IsDigit(s[k]) /\ s[k] # "+"

\* C18: for every command line that passes the pre-flight check of main (any
\* pages, 0 included, any page string), collect_posts takes the multi-page
\* path only with a page that parses as u32, so that the expect on the parse
\* never panics: no run away from the single-page path ends with the status
\* of a panic on a page that is not a number.
C18_ExpectHolds ==
    (pc = "exited" /\ exit_status = 101 /\ args.pages # 1) =>
        ~NonNumeric(args.page)

\* C19: the pool of downloads only runs with a positive concurrency: for
\* every value the command line accepts, download_all is called with
\* concurrency >= 1, and the downloads running at once stay within it.
C19_PositiveConcurrency ==
    pc = "pool" =>
        /\ args.concurrency >= 1
        /\ Cardinality(InFlight) <= args.concurrency

\* C20: after a run, a file is at the target path of a post only if a download
\* of that post was reported as successful: a failed attempt (no url, the
\* request failing, an error in the middle of the stream) leaves no file
\* there, neither empty nor partial. Stated for the runs with a positive
\* concurrency.
C20_FileOnlyIfOk ==
    (pc = "exited" /\ args.concurrency >= 1) =>
        \A i \in DOMAIN workers :
            workers[i].path \in DOMAIN files => workers[i].res = "ok"

====
